---------------------------- MODULE Spec2Model ----------------------------
(***************************************************************************)
(* A model of rfhub/kwdb.py: the KeywordTable catalog (collections and     *)
(* keywords in an SQLite store), its ingestion operations, the watchdog    *)
(* event handler, the read operations and the glob-to-LIKE translation.    *)
(*                                                                         *)
(* Text (patterns, keyword names, docs) is a sequence of one-character     *)
(* strings.  File names are sequences of name atoms ("lib", ".", "robot"). *)
(***************************************************************************)
EXTENDS Integers, Sequences, FiniteSets, TLC

VARIABLES
    collections,   \* rows of the collections table
    keywords,      \* rows of the keywords table
    watches,       \* directories scheduled on the observer, in schedule order
    content,       \* what is on disk: path -> index into Contents
    lastOp,        \* the call that ran last and the exception it ended with
    ret,           \* what the last read operation returned
    task,          \* the on_change call in progress on the watch thread
    gIn, gOut,     \* _glob_to_sql: argument and result
    cName, cData, cOut  \* _looks_like_resource_file: name, file text, result

globVars == <<gIn, gOut>>
classVars == <<cName, cData, cOut>>
vars == <<collections, keywords, watches, content, lastOp, ret, task,
          gIn, gOut, cName, cData, cOut>>

(***************************************************************************)
(* Text helpers                                                            *)
(***************************************************************************)

\* All sequences over S of length at most n.
SeqsUpTo(S, n) ==
    UNION {[1..k -> S] : k \in 0..n}

\* s.startswith(p)
StartsWith(s, p) ==
    /\ Len(s) >= Len(p)
    /\ SubSeq(s, 1, Len(p)) = p

\* s.endswith(p)
EndsWith(s, p) ==
    /\ Len(s) >= Len(p)
    /\ SubSeq(s, Len(s) - Len(p) + 1, Len(s)) = p

\* s[n:] with n counted from 0, as a Python slice
DropFirst(s, n) ==
    SubSeq(s, n + 1, Len(s))

\* str.replace(a, b): every non-overlapping occurrence of a, scanning from
\* the left, becomes b.  a is never empty here.
RECURSIVE Replace(_, _, _)
Replace(s, a, b) ==
    IF s = <<>> THEN <<>>
    ELSE IF StartsWith(s, a) THEN b \o Replace(DropFirst(s, Len(a)), a, b)
    ELSE <<Head(s)>> \o Replace(Tail(s), a, b)

(***************************************************************************)
(* _glob_to_sql                                                            *)
(***************************************************************************)

\* chr(1), chr(2), chr(3)
Chr1 == "\\x01"
Chr2 == "\\x02"
Chr3 == "\\x03"
BS == "\\"

\* The table with the wildcard rows ahead of the row that escapes %.
GlobTableWildcardsFirst ==
    << <<(<<BS, BS>>), <<Chr1>>>>,
       <<(<<BS, "*">>), <<Chr2>>>>,
       <<(<<BS, "?">>), <<Chr3>>>>,
       <<(<<"?">>), <<"_">>>>,
       <<(<<"*">>), <<"%">>>>,
       <<(<<"%">>), <<BS, "%">>>>,
       <<(<<Chr1>>), <<BS, BS>>>>,
       <<(<<Chr2>>), <<BS, "*">>>>,
       <<(<<Chr3>>), <<BS, "?">>>> >>

\* The substitution table, in the order the loop applies it.
GlobTable ==
    << <<(<<BS, BS>>), <<Chr1>>>>,
       <<(<<BS, "*">>), <<Chr2>>>>,
       <<(<<BS, "?">>), <<Chr3>>>>,
       <<(<<"%">>), <<BS, "%">>>>,
       <<(<<"?">>), <<"_">>>>,
       <<(<<"*">>), <<"%">>>>,
       <<(<<Chr1>>), <<BS, BS>>>>,
       <<(<<Chr2>>), <<BS, "*">>>>,
       <<(<<Chr3>>), <<BS, "?">>>> >>

\* for (a, b) in table: string = string.replace(a, b), over table[1..n]
RECURSIVE ApplyTable(_, _, _)
ApplyTable(string, table, n) ==
    IF n = 0 THEN string
    ELSE Replace(ApplyTable(string, table, n - 1), table[n][1], table[n][2])

GlobToSql(string) ==
    LET s1 == ApplyTable(string, GlobTable, Len(GlobTable))
        s2 == IF StartsWith(s1, <<"^">>) THEN DropFirst(s1, 1) ELSE <<"%">> \o s1
        s3 == IF EndsWith(s2, <<"$">>) THEN SubSeq(s2, 1, Len(s2) - 1) ELSE s2 \o <<"%">>
    IN s3

(***************************************************************************)
(* File names                                                              *)
(*                                                                         *)
(* A name is a sequence of atoms: "/" separates components, "." starts an  *)
(* extension, every other atom is a run of name characters.               *)
(***************************************************************************)

\* str.lower() on one atom
LowerAtom(a) ==
    CASE a = "ROBOT" -> "robot"
      [] a = "TXT" -> "txt"
      [] a = "XML" -> "xml"
      [] a = "Keywords" -> "keywords"
      [] a = "User Keywords" -> "user keywords"
      [] a = "Test Cases" -> "test cases"
      [] a = "Settings" -> "settings"
      [] a = "Remote" -> "remote"
      [] a = "<KeywordSpec " -> "<keywordspec "
      [] a = "Easter" -> "easter"
      [] a = "Broken" -> "broken"
      [] a = "A" -> "a"
      [] a = "B" -> "b"
      [] a = "C" -> "c"
      [] a = "G" -> "g"
      [] a = "L" -> "l"
      [] a = "M" -> "m"
      [] a = "U" -> "u"
      [] a = "X" -> "x"
      [] OTHER -> a

\* str.lower()
Lower(s) ==
    [i \in 1..Len(s) |-> LowerAtom(s[i])]

\* The atoms that are one character long (what "." of a regular expression
\* can match).
OneChar(a) ==
    a \in {"/", ".", "a", "b", "m", "x"}

\* Index of the last "/" of p, 0 when there is none.
LastSlash(p) ==
    LET at == {i \in 1..Len(p) : p[i] = "/"}
    IN IF at = {} THEN 0 ELSE CHOOSE i \in at : \A j \in at : j <= i

\* os.path.basename
Basename(p) ==
    DropFirst(p, LastSlash(p))

\* os.path.dirname
Dirname(p) ==
    IF LastSlash(p) <= 1 THEN SubSeq(p, 1, LastSlash(p))
    ELSE SubSeq(p, 1, LastSlash(p) - 1)

\* os.path.splitext(filename)[1]: the last "." of the name and what follows,
\* unless that "." is the first atom (a hidden name has no extension).
SplitExt(filename) ==
    LET at == {i \in 2..Len(filename) : filename[i] = "."}
    IN IF at = {} THEN <<>>
       ELSE DropFirst(filename, (CHOOSE i \in at : \A j \in at : j <= i) - 1)

\* os.path.splitext(filename)[0]
SplitRoot(filename) ==
    SubSeq(filename, 1, Len(filename) - Len(SplitExt(filename)))

\* os.path.join(dirname, filename)
Join(dirname, filename) ==
    dirname \o <<"/">> \o filename

\* The working directory of the process is the root directory.
Abspath(p) ==
    IF StartsWith(p, <<"/">>) THEN p ELSE <<"/">> \o p

(***************************************************************************)
(* _looks_like_resource_file                                               *)
(*                                                                         *)
(* A file's text is a sequence of lines, a line a sequence of atoms; the   *)
(* atoms of a line are separated by blanks.                                *)
(***************************************************************************)

\* f.read(): the lines joined by "\n"
RECURSIVE ReadText(_)
ReadText(lines) ==
    IF lines = <<>> THEN <<>>
    ELSE IF Len(lines) = 1 THEN lines[1]
    ELSE lines[1] \o <<"\n">> \o ReadText(Tail(lines))

\* re.search(r'__init__.(txt|robot|html|tsv)$', name)
InitRegexMatches(name) ==
    LET n == Len(name)
    IN /\ n >= 3
       /\ name[n - 2] = "__init__"
       /\ OneChar(name[n - 1])
       /\ name[n] \in {"txt", "robot", "html", "tsv"}

\* \*+ : a run of asterisks
IsStars(a) ==
    a \in {"*", "***"}

\* (Test Cases?|(?:User )?Keywords?) under re.IGNORECASE: the text the group
\* captures when the atom starts with one of the alternatives, "" otherwise.
HeaderGroup(a) ==
    CASE LowerAtom(a) \in {"test cases", "test case"} -> "Test Case"
      [] LowerAtom(a) \in {"keywords", "keyword", "user keywords", "user keyword"} -> "Keyword"
      [] OTHER -> ""

\* Index of the first atom at or after i that is not white space (\s*
\* runs over blanks and line ends alike); Len + 1 when there is none.
RECURSIVE SkipSpace(_, _)
SkipSpace(data, i) ==
    IF i > Len(data) THEN i
    ELSE IF data[i] = "\n" THEN SkipSpace(data, i + 1)
    ELSE i

\* The match of ^\*+\s*(Test Cases?|(?:User )?Keywords?) starting at atom i
\* under re.MULTILINE: its group(1), or "" when there is no match at i.
MatchAt(data, i) ==
    IF /\ (i = 1 \/ data[i - 1] = "\n")
       /\ IsStars(data[i])
       /\ SkipSpace(data, i + 1) <= Len(data)
    THEN HeaderGroup(data[SkipSpace(data, i + 1)])
    ELSE ""

\* re.finditer: group(1) of every match, left to right, matches not
\* overlapping.
RECURSIVE FindIter(_, _)
FindIter(data, i) ==
    IF i > Len(data) THEN <<>>
    ELSE IF MatchAt(data, i) # "" THEN <<MatchAt(data, i)>> \o FindIter(data, SkipSpace(data, i + 1) + 1)
    ELSE FindIter(data, i + 1)

\* The loop over the matches: a Test Case match returns False at once, a
\* Keyword match sets found_keyword_table.
RECURSIVE ScanMatches(_, _)
ScanMatches(matches, found_keyword_table) ==
    IF matches = <<>> THEN found_keyword_table
    ELSE IF Head(matches) = "Test Case" THEN FALSE
    ELSE ScanMatches(Tail(matches), TRUE)

\* _looks_like_resource_file(name), lines being the text of the file
LooksLikeResourceFile(name, lines) ==
    IF InitRegexMatches(name) THEN FALSE
    ELSE IF \/ EndsWith(Lower(name), <<".", "robot">>)
            \/ EndsWith(Lower(name), <<".", "txt">>)
            \/ EndsWith(Lower(name), <<".", "tsv">>)
    THEN ScanMatches(FindIter(ReadText(lines), 1), FALSE)
    ELSE FALSE

\* _looks_like_library_file(name)
LooksLikeLibraryFile(name) ==
    EndsWith(name, <<".", "py">>)

(***************************************************************************)
(* _looks_like_libdoc_file                                                 *)
(***************************************************************************)

\* len() of one atom of an xml file's text
AtomLen(a) ==
    CASE a = "<keywordspec " -> 13
      [] a = "<KeywordSpec " -> 13
      [] a = "<?xml version=\"1.0\" encoding=\"UTF-8\"?>" -> 38
      [] a = "<!-- 200 characters of comment -->" -> 200
      [] OTHER -> 1

\* str.find(marker) on the first n characters of the text: the character
\* index of the first atom equal to marker that lies wholly within them,
\* -1 when there is none.  at is the character index of Head(text).
RECURSIVE FindIn(_, _, _, _)
FindIn(text, marker, at, n) ==
    IF text = <<>> \/ at + AtomLen(Head(text)) > n THEN -1
    ELSE IF LowerAtom(Head(text)) = marker THEN at
    ELSE FindIn(Tail(text), marker, at + AtomLen(Head(text)), n)

\* _looks_like_libdoc_file(name), text being the text of the file
LooksLikeLibdocFile(name, text) ==
    IF EndsWith(Lower(name), <<".", "xml">>)
    THEN FindIn(text, "<keywordspec ", 0, 200) > 0
    ELSE FALSE

(***************************************************************************)
(* The file system and the documentation extractor                        *)
(***************************************************************************)

LibDir == <<"/", "lib">>
SubDir == Join(LibDir, <<"sub">>)
HiddenDir == Join(LibDir, <<".", "git">>)
FileA == Join(LibDir, <<"a", ".", "robot">>)
FileM == Join(LibDir, <<"m", ".", "py">>)
FileB == Join(SubDir, <<"b", ".", "txt">>)

Dirs == {LibDir, SubDir, HiddenDir}
Files == {FileA, FileM, FileB}

\* path=None of add_collection
None == <<>>

\* Keyword records as libdoc.keywords holds them: name, doc, args.
KwGo == [name |-> <<"G", "o">>, doc |-> <<"r", "u", "n">>, args |-> << <<"a">>, <<"b", "=", "1">> >>]
KwUp == [name |-> <<"U", "p">>, doc |-> <<" ", "u", "p", "\n", "g", "o">>, args |-> <<>>]
KwPct == [name |-> <<"5", "%">>, doc |-> <<"p">>, args |-> <<>>]
KwDir == [name |-> <<"c", "d">>, doc |-> <<"5", "\\", "a">>, args |-> <<>>]

\* The text libdoc puts in place of a missing file-level documentation.
Placeholder == <<"D", "o", "c", "u", "m", "e", "n", "t", "a", "t", "i", "o", "n", " ", "f", "o", "r", " ", "r", "e", "s", "o", "u", "r", "c", "e", " ", "f", "i", "l", "e">>

\* What LibraryDocumentation returns: a libdoc, or a DataError raised.
LibDoc(name, type, doc, kws) ==
    [error |-> "", name |-> name, type |-> type, doc |-> doc, version |-> <<>>,
     scope |-> <<"g", "l", "o", "b", "a", "l">>, named_args |-> TRUE, doc_format |-> <<"R", "O", "B", "O", "T">>,
     keywords |-> kws]

Failure(kind) ==
    [error |-> kind, name |-> <<>>, type |-> <<>>, doc |-> <<>>, version |-> <<>>,
     scope |-> <<>>, named_args |-> TRUE, doc_format |-> <<>>, keywords |-> <<>>]

HeaderKeywords == <<"***", "Keywords", "***">>
HeaderTestCases == <<"***", "Test Cases", "***">>

\* The versions a file on disk goes through: the lines of its text, the
\* classes ast finds in it, what the extractor makes of the file and of
\* the class libraries in it.  Version 0 is the file not being there.
FileVersion(v) ==
    CASE v = 1 -> [lines |-> <<HeaderKeywords>>, classes |-> <<>>,
                   libdoc |-> LibDoc(<<"a">>, <<"r", "e", "s", "o", "u", "r", "c", "e">>, Placeholder \o <<" ", "a">>, <<KwGo, KwGo>>),
                   classdoc |-> Failure("DataError")]
      [] v = 2 -> [lines |-> <<HeaderKeywords>>, classes |-> <<>>,
                   libdoc |-> LibDoc(<<"a">>, <<"r", "e", "s", "o", "u", "r", "c", "e">>, <<"A", "\n", "x">>, <<KwUp>>),
                   classdoc |-> Failure("DataError")]
      [] v = 3 -> [lines |-> <<HeaderKeywords>>, classes |-> <<>>,
                   libdoc |-> Failure("DataError"),
                   classdoc |-> Failure("DataError")]
      [] v = 4 -> [lines |-> <<HeaderTestCases, HeaderKeywords>>, classes |-> <<>>,
                   libdoc |-> LibDoc(<<"a">>, <<"s", "u", "i", "t", "e">>, <<>>, <<KwGo>>),
                   classdoc |-> Failure("DataError")]
      [] v = 5 -> [lines |-> <<>>, classes |-> <<"C">>,
                   libdoc |-> LibDoc(<<"m">>, <<"l", "i", "b", "r", "a", "r", "y">>, <<"M">>, <<KwGo>>),
                   classdoc |-> LibDoc(<<"m", ".", "C">>, <<"l", "i", "b", "r", "a", "r", "y">>, <<"C">>, <<KwUp>>)]
      [] v = 6 -> [lines |-> <<>>, classes |-> <<"C">>,
                   libdoc |-> LibDoc(<<"m">>, <<"l", "i", "b", "r", "a", "r", "y">>, <<"M">>, <<KwUp>>),
                   classdoc |-> Failure("DataError")]
      [] v = 7 -> [lines |-> <<HeaderKeywords>>, classes |-> <<>>,
                   libdoc |-> LibDoc(<<"b">>, <<"r", "e", "s", "o", "u", "r", "c", "e">>, <<"B">>, <<KwGo>>),
                   classdoc |-> Failure("DataError")]
      [] v = 8 -> [lines |-> <<>>, classes |-> <<"C", "D">>,
                   libdoc |-> LibDoc(<<"m">>, <<"l", "i", "b", "r", "a", "r", "y">>, <<"M">>, <<KwUp>>),
                   classdoc |-> Failure("DataError")]
      [] v = 9 -> [lines |-> <<>>, classes |-> <<"C", "D">>,
                   libdoc |-> LibDoc(<<"m">>, <<"l", "i", "b", "r", "a", "r", "y">>, <<"M">>, <<KwUp>>),
                   classdoc |-> Failure("AttributeError")]
      [] v = 10 -> [lines |-> <<HeaderKeywords>>, classes |-> <<>>,
                    libdoc |-> LibDoc(<<"b">>, <<"r", "e", "s", "o", "u", "r", "c", "e">>, <<"B">>, <<KwPct, KwDir>>),
                    classdoc |-> Failure("DataError")]
      [] v = 11 -> [lines |-> <<HeaderKeywords>>, classes |-> <<>>,
                    libdoc |-> LibDoc(<<"a">>, <<"r", "e", "s", "o", "u", "r", "c", "e">>, <<"A">>, <<>>),
                    classdoc |-> Failure("DataError")]
      [] OTHER -> [lines |-> <<>>, classes |-> <<>>,
                   libdoc |-> Failure("DataError"),
                   classdoc |-> Failure("DataError")]

\* The versions each file takes in the model.
Versions(path) ==
    CASE path = FileA -> {1, 2, 3}
      [] path = FileM -> {0, 5, 6, 8, 9}
      [] path = FileB -> {0, 7, 10}

\* What the extractor makes of the second class of m.py, in the versions
\* that have one.
LibClassD == LibDoc(<<"m", ".", "D">>, <<"l", "i", "b", "r", "a", "r", "y">>, <<"D">>, <<KwGo>>)

\* The library Easter of robot.libraries, with its one keyword.
LibEaster == LibDoc(<<"Easter">>, <<"l", "i", "b", "r", "a", "r", "y">>, <<>>, <<KwGo>>)

\* The library the extractor resolves by name alone.
LibXML == LibDoc(<<"X", "M", "L">>, <<"l", "i", "b", "r", "a", "r", "y">>, <<"x", "m", "l">>, <<KwGo>>)

\* os.path.isdir
IsDir(name) ==
    Abspath(name) \in Dirs

\* os.path.isfile
IsFile(name) ==
    /\ Abspath(name) \in Files
    /\ content[Abspath(name)] # 0

\* os.access(path, os.R_OK)
Readable(path) ==
    IsDir(path) \/ IsFile(path)

\* os.listdir(dirname); the order is the one the platform gives.
ListDir(dirname) ==
    LET all == CASE Abspath(dirname) = LibDir -> << <<"a", ".", "robot">>, <<".", "git">>, <<"m", ".", "py">>, <<"sub">> >>
                 [] Abspath(dirname) = SubDir -> << <<"b", ".", "txt">> >>
                 [] OTHER -> << >>
    IN SelectSeq(all, LAMBDA f : IsDir(Join(dirname, f)) \/ IsFile(Join(dirname, f)))

\* open(path).read(), as lines
FileLines(path) ==
    FileVersion(content[Abspath(path)]).lines

\* LibraryDocumentation(name): of a file that is there, of the library XML,
\* of a class of the module m once its directory is on sys.path; anything
\* else is a DataError.
LibraryDocumentation(name) ==
    IF IsFile(name) THEN FileVersion(content[Abspath(name)]).libdoc
    ELSE IF name = <<"XML">> THEN LibXML
    ELSE IF name = <<"Easter">> THEN LibEaster
    ELSE IF name = <<"m", ".", "C">> /\ content[FileM] # 0 THEN FileVersion(content[FileM]).classdoc
    ELSE IF name = <<"m", ".", "D">> /\ content[FileM] \in {8, 9} THEN LibClassD
    ELSE Failure("DataError")

\* _get_classnames_from_file(path)
GetClassnamesFromFile(path) ==
    FileVersion(content[Abspath(path)]).classes

(***************************************************************************)
(* The store: the two tables and the statements run against them           *)
(***************************************************************************)

\* The largest element of a finite set of naturals, 0 for the empty set.
Max(S) ==
    IF S = {} THEN 0 ELSE CHOOSE x \in S : \A y \in S : y <= x

\* The elements of a finite set of naturals in ascending order.
RECURSIVE Ascending(_)
Ascending(S) ==
    IF S = {} THEN <<>>
    ELSE LET lo == CHOOSE x \in S : \A y \in S : x <= y
         IN <<lo>> \o Ascending(S \ {lo})

\* The key SQLite gives a row inserted into a table with an INTEGER primary
\* key and no AUTOINCREMENT: one more than the largest key in the table.
NextId(ids) ==
    Max(ids) + 1

\* json.dumps writing the characters of a string as they are.
JsonEscapeNothing(str) ==
    str

\* json.dumps of one string
RECURSIVE JsonEscape(_)
JsonEscape(str) ==
    IF str = <<>> THEN <<>>
    ELSE IF Head(str) \in {"\"", "\\"} THEN <<"\\", Head(str)>> \o JsonEscape(Tail(str))
    ELSE IF Head(str) = "\n" THEN <<"\\", "n">> \o JsonEscape(Tail(str))
    ELSE <<Head(str)>> \o JsonEscape(Tail(str))

\* json.dumps(args) of a list of strings
RECURSIVE JsonItems(_)
JsonItems(args) ==
    IF args = <<>> THEN <<>>
    ELSE IF Len(args) = 1 THEN <<"\"">> \o JsonEscape(args[1]) \o <<"\"">>
    ELSE <<"\"">> \o JsonEscape(args[1]) \o <<"\"", ",", " ">> \o JsonItems(Tail(args))

JsonDumps(args) ==
    <<"[">> \o JsonItems(args) \o <<"]">>

\* json.loads of a string literal: text[i] is the character after the opening
\* quote; the value, and the index after the closing quote.
RECURSIVE JsonString(_, _)
JsonString(text, i) ==
    IF i > Len(text) THEN [value |-> <<>>, next |-> i]
    ELSE IF text[i] = "\"" THEN [value |-> <<>>, next |-> i + 1]
    ELSE IF text[i] = "\\" /\ i < Len(text)
    THEN LET r == JsonString(text, i + 2)
         IN [value |-> <<IF text[i + 1] = "n" THEN "\n" ELSE text[i + 1]>> \o r.value,
             next |-> r.next]
    ELSE LET r == JsonString(text, i + 1)
         IN [value |-> <<text[i]>> \o r.value, next |-> r.next]

\* json.loads of the elements of a list of strings, from text[i] on
RECURSIVE JsonElements(_, _)
JsonElements(text, i) ==
    IF i > Len(text) \/ text[i] = "]" THEN <<>>
    ELSE IF text[i] = "\""
    THEN LET r == JsonString(text, i + 1)
         IN <<r.value>> \o JsonElements(text, r.next)
    ELSE JsonElements(text, i + 1)

\* json.loads(row[1])
JsonLoads(text) ==
    JsonElements(text, 2)

\* The state an operation works on: the two tables, the handlers scheduled
\* on the observer per directory, and the exception in flight ("" for none).
StateNow ==
    [collections |-> collections, keywords |-> keywords, watches |-> watches, raised |-> ""]

\* add_collection replacing the rows that have the same path by the new one.
AddCollectionReplacing(S, path, libdoc) ==
    [S EXCEPT !.collections = {c \in @ : c.path # (IF path # None THEN Abspath(path) ELSE None)} \cup
        {[collection_id |-> NextId({c.collection_id : c \in S.collections}),
          name |-> libdoc.name, type |-> libdoc.type, version |-> libdoc.version,
          scope |-> libdoc.scope, namedargs |-> libdoc.named_args,
          path |-> IF path # None THEN Abspath(path) ELSE None,
          doc |-> libdoc.doc, doc_format |-> libdoc.doc_format]}]

\* add_collection: the row inserted; its key is NextId of the table.
AddCollection(S, path, libdoc) ==
    [S EXCEPT !.collections = @ \cup
        {[collection_id |-> NextId({c.collection_id : c \in S.collections}),
          name |-> libdoc.name, type |-> libdoc.type, version |-> libdoc.version,
          scope |-> libdoc.scope, namedargs |-> libdoc.named_args,
          path |-> IF path # None THEN Abspath(path) ELSE None,
          doc |-> libdoc.doc, doc_format |-> libdoc.doc_format]}]

\* _add_keyword
AddKeyword(S, collection_id, name, doc, args) ==
    [S EXCEPT !.keywords = @ \cup
        {[keyword_id |-> NextId({k.keyword_id : k \in S.keywords}),
          name |-> name, collection_id |-> collection_id, doc |-> doc,
          args |-> JsonDumps(args)]}]

\* for keyword in libdoc.keywords: self._add_keyword(...)
RECURSIVE AddKeywords(_, _, _)
AddKeywords(S, collection_id, kws) ==
    IF kws = <<>> THEN S
    ELSE AddKeywords(AddKeyword(S, collection_id, Head(kws).name, Head(kws).doc, Head(kws).args),
                     collection_id, Tail(kws))

\* libdoc=None of _load_keywords
NoLibdoc == Failure("None")

\* _load_keywords(collection_id, path, libdoc)
LoadKeywords(S, collection_id, path, libdoc) ==
    IF libdoc = NoLibdoc /\ path = None THEN [S EXCEPT !.raised = "Exception"]
    ELSE LET doc == IF libdoc = NoLibdoc THEN LibraryDocumentation(path) ELSE libdoc
         IN IF doc.error # "" THEN [S EXCEPT !.raised = doc.error]
            ELSE IF Len(doc.keywords) > 0 THEN AddKeywords(S, collection_id, doc.keywords)
            ELSE S

\* add_file(path)
AddFile(S, path) ==
    LET libdoc == LibraryDocumentation(path)
        doc == IF StartsWith(libdoc.doc, Placeholder) THEN <<>> ELSE libdoc.doc
        S1 == AddCollection(S, path, [libdoc EXCEPT !.doc = doc])
    IN IF libdoc.error # "" THEN [S EXCEPT !.raised = libdoc.error]
       ELSE IF Len(libdoc.keywords) > 0
       THEN LoadKeywords(S1, Max({c.collection_id : c \in S1.collections}), None,
                         [libdoc EXCEPT !.doc = doc])
       ELSE S

\* add_library(name)
AddLibrary(S, name) ==
    LET libdoc == LibraryDocumentation(name)
        S1 == AddCollection(S, None, libdoc)
    IN IF libdoc.error # "" THEN [S EXCEPT !.raised = libdoc.error]
       ELSE IF Len(libdoc.keywords) > 0
       THEN LoadKeywords(S1, Max({c.collection_id : c \in S1.collections}), None, libdoc)
       ELSE S

\* add_keywords_from_classes(path, class_names): a KeyError, AttributeError
\* or DataError of one class is dropped.
RECURSIVE AddKeywordsFromClasses(_, _, _)
AddKeywordsFromClasses(S, path, class_names) ==
    IF class_names = <<>> THEN S
    ELSE LET lib_mane == SplitRoot(Basename(path)) \o <<".", Head(class_names)>>
             S1 == AddLibrary(S, lib_mane)
         IN IF S1.raised \in {"KeyError", "AttributeError", "DataError"}
            THEN AddKeywordsFromClasses([S1 EXCEPT !.raised = ""], path, Tail(class_names))
            ELSE IF S1.raised # "" THEN S1
            ELSE AddKeywordsFromClasses(S1, path, Tail(class_names))

\* observer.schedule(event_handler, dirname, recursive=True)
Schedule(S, dirname) ==
    [S EXCEPT !.watches[dirname] = @ + 1]

RECURSIVE Add(_, _, _)
RECURSIVE AddFolder(_, _, _)
RECURSIVE AddFolderEntries(_, _, _)

\* add(name, monitor)
Add(S, name, monitor) ==
    IF IsDir(name)
    THEN IF ~StartsWith(Basename(name), <<".">>) THEN AddFolder(S, name, TRUE) ELSE S
    ELSE IF IsFile(name)
    THEN IF \/ LooksLikeResourceFile(name, FileLines(name))
            \/ LooksLikeLibdocFile(name, ReadText(FileLines(name)))
            \/ LooksLikeLibraryFile(name)
         THEN LET S1 == AddFile(S, name)
              IN IF S1.raised # "" THEN S1
                 ELSE IF LooksLikeLibraryFile(name) /\ GetClassnamesFromFile(name) # <<>>
                 THEN AddKeywordsFromClasses(S1, name, GetClassnamesFromFile(name))
                 ELSE S1
         ELSE S
    ELSE AddLibrary(S, name)

\* The loop of add_folder with no try around the entry: what an entry
\* raises ends the loop.
AddFolderEntriesUnguarded(S, dirname, entries) ==
    IF entries = <<>> THEN S
    ELSE LET filename == Head(entries)
             path == Join(dirname, filename)
             ext == SplitExt(Lower(filename))
             S1 == IF IsDir(path)
                   THEN IF ~StartsWith(SplitRoot(Lower(filename)), <<".">>) /\ Readable(path)
                        THEN AddFolder(S, path, FALSE) ELSE S
                   ELSE IF ext \in {<<".", "xml">>, <<".", "robot">>, <<".", "txt">>,
                                    <<".", "py">>, <<".", "tsv">>} /\ Readable(path)
                        THEN Add(S, path, TRUE) ELSE S
         IN IF S1.raised # "" THEN S1 ELSE AddFolderEntries(S1, dirname, Tail(entries))

\* The loop of add_folder over os.listdir(dirname): whatever one entry
\* raises is printed and dropped.
AddFolderEntries(S, dirname, entries) ==
    IF entries = <<>> THEN S
    ELSE LET filename == Head(entries)
             path == Join(dirname, filename)
             ext == SplitExt(Lower(filename))
             S1 == IF IsDir(path)
                   THEN IF ~StartsWith(SplitRoot(Lower(filename)), <<".">>) /\ Readable(path)
                        THEN AddFolder(S, path, FALSE) ELSE S
                   ELSE IF ext \in {<<".", "xml">>, <<".", "robot">>, <<".", "txt">>,
                                    <<".", "py">>, <<".", "tsv">>} /\ Readable(path)
                        THEN Add(S, path, TRUE) ELSE S
         IN AddFolderEntries([S1 EXCEPT !.raised = ""], dirname, Tail(entries))

\* add_folder(dirname, watch)
AddFolder(S, dirname, watch) ==
    LET S1 == AddFolderEntries(S, dirname, ListDir(dirname))
    IN IF watch THEN Schedule(S1, Abspath(dirname)) ELSE S1

\* _should_ignore(name)
ShouldIgnore(name) ==
    LET _name == Lower(name)
    IN \/ StartsWith(_name, <<"deprecated">>)
       \/ StartsWith(_name, <<"_">>)
       \/ _name \in {<<"remote">>, <<"reserved">>, <<"Easter">>,
                      <<"dialogs_py">>, <<"dialogs_ipy">>, <<"dialogs_jy">>}

\* The loop of add_installed_libraries over os.listdir(libdir); loaded is
\* the list the call starts empty.
RECURSIVE AddInstalledLibrariesLoop(_, _, _)
AddInstalledLibrariesLoop(S, listing, loaded) ==
    IF listing = <<>> THEN S
    ELSE LET filename == Head(listing)
             libname == SplitRoot(filename)
         IN IF /\ EndsWith(filename, <<".", "py">>) \/ EndsWith(filename, <<".", "pyc">>)
               /\ \A i \in 1..Len(loaded) : loaded[i] # Lower(libname)
               /\ ~ShouldIgnore(libname)
            THEN LET S1 == Add(S, libname, TRUE)
                 IN IF S1.raised # ""
                    THEN AddInstalledLibrariesLoop([S1 EXCEPT !.raised = ""], Tail(listing), loaded)
                    ELSE AddInstalledLibrariesLoop(S1, Tail(listing),
                                                   Append(loaded, Lower(libname)))
            ELSE AddInstalledLibrariesLoop(S, Tail(listing), loaded)

\* add_installed_libraries(), listing being what os.listdir(libdir) gives
AddInstalledLibraries(S, listing) ==
    AddInstalledLibrariesLoop(S, listing, <<>>)

\* The SELECT of on_change taking the rows without a path as well.
CollectionsWithPathOrNone(S, path) ==
    Ascending({c.collection_id : c \in {r \in S.collections : r.path \in {path, None}}})

\* The rows SELECT collection_id FROM collections WHERE path == ? gives.
CollectionsWithPath(S, path) ==
    Ascending({c.collection_id : c \in {r \in S.collections : r.path = path}})

\* The loop of on_change extracting before it deletes.
RECURSIVE ReindexExtractsFirst(_, _, _)
ReindexExtractsFirst(S, results, path) ==
    IF results = <<>> THEN S
    ELSE LET old == {k \in S.keywords : k.collection_id = Head(results)}
             S2 == LoadKeywords(S, Head(results), path, NoLibdoc)
         IN IF S2.raised # "" THEN S2
            ELSE ReindexExtractsFirst([S2 EXCEPT !.keywords = @ \ old], Tail(results), path)

\* The loop of on_change deleting the keywords of every collection.
RECURSIVE ReindexDeletesAll(_, _, _)
ReindexDeletesAll(S, results, path) ==
    IF results = <<>> THEN S
    ELSE LET S1 == [S EXCEPT !.keywords = {}]
             S2 == LoadKeywords(S1, Head(results), path, NoLibdoc)
         IN IF S2.raised # "" THEN S2 ELSE ReindexDeletesAll(S2, Tail(results), path)


\* The loop of on_change without its DELETE statement.
RECURSIVE ReindexKeepsOld(_, _, _)
ReindexKeepsOld(S, results, path) ==
    IF results = <<>> THEN S
    ELSE LET S2 == LoadKeywords(S, Head(results), path, NoLibdoc)
         IN IF S2.raised # "" THEN S2 ELSE ReindexKeepsOld(S2, Tail(results), path)

\* The loop of on_change over the selected rows: delete the collection's
\* keywords, load them again from the path.
RECURSIVE Reindex(_, _, _)
Reindex(S, results, path) ==
    IF results = <<>> THEN S
    ELSE LET S1 == [S EXCEPT !.keywords = {k \in @ : k.collection_id # Head(results)}]
             S2 == LoadKeywords(S1, Head(results), path, NoLibdoc)
         IN IF S2.raised # "" THEN S2 ELSE Reindex(S2, Tail(results), path)

\* on_change(path, event_type)
OnChange(S, path) ==
    Reindex(S, CollectionsWithPath(S, path), path)

\* reset() without its second DELETE statement.
ResetKeywordsOnly(S) ==
    [S EXCEPT !.keywords = {}]

\* reset()
ResetStore(S) ==
    [S EXCEPT !.keywords = {}, !.collections = {}]

(***************************************************************************)
(* The read operations                                                     *)
(***************************************************************************)

\* SQLite's LIKE with no ESCAPE clause: % is any run of characters, _ any
\* one character, every other character of the pattern is itself.
RECURSIVE Like(_, _)
Like(text, pattern) ==
    IF pattern = <<>> THEN text = <<>>
    ELSE IF Head(pattern) = "%"
    THEN Like(text, Tail(pattern)) \/ (text # <<>> /\ Like(Tail(text), pattern))
    ELSE IF text = <<>> THEN FALSE
    ELSE IF Head(pattern) = "_" THEN Like(Tail(text), Tail(pattern))
    ELSE Head(pattern) = Head(text) /\ Like(Tail(text), Tail(pattern))

\* column.ilike(pattern): lower(column) LIKE lower(pattern)
ILike(text, pattern) ==
    Like(Lower(text), Lower(pattern))

\* The order of the characters of the model's texts (their code points).
CharCode(c) ==
    CASE c = "\n" -> 10
      [] c = " " -> 32
      [] c = "%" -> 37
      [] c = "." -> 46
      [] c = "5" -> 53
      [] c = "A" -> 65
      [] c = "B" -> 66
      [] c = "C" -> 67
      [] c = "G" -> 71
      [] c = "L" -> 76
      [] c = "M" -> 77
      [] c = "U" -> 85
      [] c = "X" -> 88
      [] c = "\\" -> 92
      [] c = "a" -> 97
      [] c = "b" -> 98
      [] c = "g" -> 103
      [] c = "m" -> 109
      [] c = "o" -> 111
      [] c = "p" -> 112
      [] OTHER -> 120

\* a <= b in the order of ORDER BY on a Text column
RECURSIVE TextLeq(_, _)
TextLeq(a, b) ==
    IF a = <<>> THEN TRUE
    ELSE IF b = <<>> THEN FALSE
    ELSE IF CharCode(Head(a)) # CharCode(Head(b)) THEN CharCode(Head(a)) < CharCode(Head(b))
    ELSE TextLeq(Tail(a), Tail(b))

\* str.split("\n")[0]
RECURSIVE FirstLine(_)
FirstLine(str) ==
    IF str = <<>> \/ Head(str) = "\n" THEN <<>>
    ELSE <<Head(str)>> \o FirstLine(Tail(str))

\* str.lstrip()
RECURSIVE LStrip(_)
LStrip(str) ==
    IF str # <<>> /\ Head(str) \in {" ", "\n"} THEN LStrip(Tail(str)) ELSE str

\* str.strip()
RECURSIVE Strip(_)
Strip(str) ==
    IF str # <<>> /\ str[Len(str)] \in {" ", "\n"} THEN Strip(SubSeq(str, 1, Len(str) - 1))
    ELSE LStrip(str)

\* The sequences that hold every element of the finite set S once.
Orderings(S) ==
    {f \in [1..Cardinality(S) -> S] : \A i, j \in 1..Cardinality(S) : f[i] = f[j] => i = j}

\* The rows of a SELECT in the order its ORDER BY gives: Leq(a, b) says
\* that row a may come before row b.
OrderedBy(S, Leq(_, _)) ==
    {f \in Orderings(S) : \A i, j \in 1..Cardinality(S) : i < j => Leq(f[i], f[j])}

\* collections JOIN keywords
Joined(S) ==
    {<<c, k>> \in S.collections \X S.keywords : c.collection_id = k.collection_id}

\* The rows search selects.
SearchRows(S, pattern, mode) ==
    LET sql == Lower(GlobToSql(pattern))
    IN {j \in Joined(S) :
           IF mode = "name" THEN Like(Lower(j[2].name), sql)
           ELSE Like(Lower(j[2].name), sql) \/ Like(Lower(j[2].doc), sql)}

\* ORDER BY collection_id, collections.name, keywords.name
SearchOrder(a, b) ==
    \/ a[1].collection_id < b[1].collection_id
    \/ /\ a[1].collection_id = b[1].collection_id
       /\ TextLeq(a[2].name, b[2].name)

\* The tuple search makes of one row.
SearchTuple(j) ==
    <<j[1].collection_id, j[1].name, j[2].name, FirstLine(Strip(j[2].doc))>>

\* search returning its list of tuples as the cursor gave them.
SearchList(S, pattern, mode) ==
    {[i \in 1..Len(cursor) |-> SearchTuple(cursor[i])] :
        cursor \in OrderedBy(SearchRows(S, pattern, mode), SearchOrder)}

\* search(pattern, mode): the lists it can return.  list(set(result))
\* holds each distinct tuple once, in the order the set iterates, which is
\* any order.
Search(S, pattern, mode) ==
    UNION {Orderings({SearchTuple(cursor[i]) : i \in 1..Len(cursor)}) :
           cursor \in OrderedBy(SearchRows(S, pattern, mode), SearchOrder)}

\* ORDER BY collections.name
NameOrder(a, b) ==
    TextLeq(a.name, b.name)

\* get_collections(pattern, libtype): the lists it can return (rows of
\* equal name come in either order).
GetCollections(S, pattern, libtype) ==
    LET rows == {c \in S.collections :
                    /\ ILike(c.name, GlobToSql(pattern))
                    /\ ILike(c.type, GlobToSql(libtype))}
        dicts == {[collection_id |-> c.collection_id, name |-> c.name,
                   synopsis |-> FirstLine(c.doc), type |-> c.type, path |-> c.path] : c \in rows}
    IN OrderedBy(dicts, NameOrder)

\* get_keyword_data(collection_id): the lists it can return
GetKeywordData(S, collection_id) ==
    LET rows == {k \in S.keywords : k.collection_id = collection_id}
        tuples == {<<k.keyword_id, k.name, k.args, k.doc>> : k \in rows}
    IN OrderedBy(tuples, LAMBDA a, b : TextLeq(a[2], b[2]))

\* The empty dict get_keyword returns when it finds no row.
EmptyDict == [name |-> <<>>, args |-> <<>>, doc |-> <<>>, collection_id |-> 0]

\* get_keyword(collection_id, name): the dicts it can return.  The SELECT
\* has no ORDER BY, so fetchone() gives any of the rows name matches.
GetKeyword(S, collection_id, name) ==
    LET rows == {k \in S.keywords : k.collection_id = collection_id /\ ILike(k.name, name)}
    IN IF rows = {} THEN {EmptyDict}
       ELSE {[name |-> k.name, args |-> JsonLoads(k.args), doc |-> k.doc,
              collection_id |-> collection_id] : k \in rows}

(***************************************************************************)
(* The catalog as a state machine: one action per call of the control      *)
(* thread, per event the handler gets, and per change of a file on disk.   *)
(***************************************************************************)

MaxCollections == 2
MaxKeywordId == 4
MaxHandlers == 1
MaxRows == 3

\* What the caller hands to add: directories, files, library names.
Locators ==
    {LibDir, <<"lib">>, SubDir, HiddenDir, FileA, <<"XML">>, <<"NoSuchLib">>}

SearchPatterns ==
    {<<"*">>, <<"g", "o">>, <<"^", "u", "?", "$">>}

Unset == <<"unset">>
NoResult == [op |-> "none", rows |-> <<>>]
Idle == [pc |-> "idle", path |-> <<>>, results |-> <<>>, collection_id |-> 0,
         todo |-> <<>>, before |-> <<>>, after |-> <<>>]

\* The state is within the bounds of the model.
Bounded(S) ==
    /\ Cardinality(S.collections) <= MaxCollections
    /\ \A k \in S.keywords : k.keyword_id <= MaxKeywordId
    /\ \A d \in Dirs : S.watches[d] <= MaxHandlers

\* The call leaves the store and the observer as S has them, and ends with
\* the exception S carries.
Becomes(S, op) ==
    /\ Bounded(S)
    /\ collections' = S.collections
    /\ keywords' = S.keywords
    /\ watches' = S.watches
    /\ lastOp' = [op |-> op, raised |-> S.raised]

\* patterns of WatchdogHandler, and a watch scheduled on a directory above
\* the path (recursive=True).
Dispatched(path) ==
    /\ SplitExt(Lower(Basename(path))) \in
           {<<".", "robot">>, <<".", "txt">>, <<".", "py">>, <<".", "tsv">>}
    /\ \E d \in Dirs : watches[d] > 0 /\ StartsWith(path, d \o <<"/">>)

TypeOK ==
    /\ \A c \in collections : c.collection_id \in 1..MaxCollections
    /\ \A k \in keywords : k.keyword_id \in 1..MaxKeywordId
    /\ watches \in [Dirs -> 0..MaxHandlers]
    /\ \A f \in Files : content[f] \in Versions(f) \cup {0, 11}

\* A new KeywordTable: empty tables, nothing scheduled.
InitStore ==
    /\ collections = {}
    /\ keywords = {}
    /\ watches = [d \in Dirs |-> 0]
    /\ lastOp = [op |-> "init", raised |-> ""]
    /\ ret = NoResult
    /\ task = Idle

InitPure ==
    /\ gIn = <<>> /\ gOut = Unset
    /\ cName = <<>> /\ cData = <<>> /\ cOut = "unset"

\* The resource file a.robot is on disk in one of its versions.
Init ==
    /\ InitStore
    /\ InitPure
    /\ content \in {c \in [Files -> 0..7] : c[FileA] \in Versions(FileA) /\ c[FileM] = 0 /\ c[FileB] = 0}

\* kwdb.add(name, monitor) on the control thread
DoAdd(name, monitor) ==
    /\ Becomes(Add(StateNow, name, monitor), "add")
    /\ ret' = NoResult
    /\ UNCHANGED <<content, task, globVars, classVars>>

\* WatchdogHandler.on_created
OnCreated(path) ==
    /\ Dispatched(path)
    /\ Becomes(Add(StateNow, path, FALSE), "on_created")
    /\ ret' = NoResult
    /\ UNCHANGED <<content, task, globVars, classVars>>

\* WatchdogHandler.on_deleted
OnDeleted(path) ==
    /\ Dispatched(path)
    /\ Becomes(StateNow, "on_deleted")
    /\ ret' = NoResult
    /\ UNCHANGED <<content, task, globVars, classVars>>

\* WatchdogHandler.on_modified
OnModified(path) ==
    /\ Dispatched(path)
    /\ Becomes(OnChange(StateNow, path), "on_modified")
    /\ ret' = NoResult
    /\ UNCHANGED <<content, task, globVars, classVars>>

\* kwdb.reset()
Reset ==
    /\ Becomes(ResetStore(StateNow), "reset")
    /\ ret' = NoResult
    /\ UNCHANGED <<content, task, globVars, classVars>>

\* Some program writes the file anew.
WriteFile(path, v) ==
    /\ v # content[path]
    /\ content' = [content EXCEPT ![path] = v]
    /\ lastOp' = [op |-> "write", raised |-> ""]
    /\ ret' = NoResult
    /\ UNCHANGED <<collections, keywords, watches, task, globVars, classVars>>

Next ==
    \/ \E name \in Locators, monitor \in BOOLEAN : DoAdd(name, monitor)
    \/ \E path \in Files : OnCreated(path)
    \/ \E path \in Files : OnDeleted(path)
    \/ \E path \in Files : OnModified(path)
    \/ Reset
    \/ \E v \in Versions(FileA) : WriteFile(FileA, v)

Spec == Init /\ [][Next]_vars

(***************************************************************************)
(* The read operations of the control thread, over a store that add and    *)
(* reset fill and empty.                                                   *)
(***************************************************************************)

\* kwdb.search(pattern, mode)
DoSearch(pattern, mode) ==
    /\ Cardinality(SearchRows(StateNow, pattern, mode)) <= MaxRows
    /\ \E rows \in Search(StateNow, pattern, mode) : ret' = [op |-> "search", rows |-> rows]
    /\ lastOp' = [op |-> "search", raised |-> ""]
    /\ UNCHANGED <<collections, keywords, watches, content, task, globVars, classVars>>

\* kwdb.get_collections(pattern, libtype)
DoGetCollections(pattern, libtype) ==
    /\ \E rows \in GetCollections(StateNow, pattern, libtype) :
           ret' = [op |-> "get_collections", rows |-> rows]
    /\ lastOp' = [op |-> "get_collections", raised |-> ""]
    /\ UNCHANGED <<collections, keywords, watches, content, task, globVars, classVars>>

\* kwdb.get_keyword_data(collection_id)
DoGetKeywordData(collection_id) ==
    /\ \E rows \in GetKeywordData(StateNow, collection_id) :
           ret' = [op |-> "get_keyword_data", rows |-> rows]
    /\ lastOp' = [op |-> "get_keyword_data", raised |-> ""]
    /\ UNCHANGED <<collections, keywords, watches, content, task, globVars, classVars>>

\* kwdb.get_keyword(collection_id, name)
DoGetKeyword(collection_id, name) ==
    /\ \E r \in GetKeyword(StateNow, collection_id, name) :
           ret' = [op |-> "get_keyword", rows |-> IF r = EmptyDict THEN <<>> ELSE <<r>>]
    /\ lastOp' = [op |-> "get_keyword", raised |-> ""]
    /\ UNCHANGED <<collections, keywords, watches, content, task, globVars, classVars>>

ReadNext ==
    \/ \E name \in {LibDir, FileA, <<"XML">>} : DoAdd(name, TRUE)
    \/ Reset
    \/ \E v \in Versions(FileA) : WriteFile(FileA, v)
    \/ \E pattern \in SearchPatterns, mode \in {"both", "name"} : DoSearch(pattern, mode)
    \/ \E libtype \in {<<"*">>, <<"r", "e", "s", "o", "u", "r", "c", "e">>} : DoGetCollections(<<"*">>, libtype)
    \/ \E collection_id \in 1..MaxCollections : DoGetKeywordData(collection_id)

ReadSpec == Init /\ [][ReadNext]_vars

(***************************************************************************)
(* _glob_to_sql applied to every short pattern over the glob alphabet      *)
(***************************************************************************)

MaxGlobLen == 4

GlobAlphabet ==
    {"a", "*", "?", "%", BS, "^", "$", Chr2}

PatternExact == <<"^", "E", "x", "a", "c", "t", "$">>
PatternSelenium == <<"S", "e", "l", "e", "n", "i", "u", "m", "*">>

GlobInputs ==
    SeqsUpTo(GlobAlphabet, MaxGlobLen) \cup {PatternExact, PatternSelenium}

\* Nothing is on disk and the store is empty while a pure function runs.
InitIdle ==
    /\ InitStore
    /\ content = [f \in Files |-> 0]

GlobInit ==
    /\ InitIdle
    /\ gIn \in GlobInputs /\ gOut = Unset
    /\ cName = <<>> /\ cData = <<>> /\ cOut = "unset"

GlobApply ==
    /\ gOut = Unset
    /\ gOut' = GlobToSql(gIn)
    /\ UNCHANGED <<collections, keywords, watches, content, lastOp, ret, task, gIn, classVars>>

GlobSpec == GlobInit /\ [][GlobApply]_vars

(***************************************************************************)
(* _looks_like_resource_file applied to names and short file texts         *)
(***************************************************************************)

MaxLines == 3

ClassLines ==
    {HeaderKeywords, HeaderTestCases,
     <<"***", "User Keywords", "***">>, <<"*", "keywords">>,
     <<"***", "Settings", "***">>, <<"Keywords">>, <<"Test Cases">>}

ClassNames ==
    {LibDir \o <<"/">> \o stem \o <<".", ext>> :
        stem \in {<<"a">>, <<"__init__">>, <<"my", "__init__">>},
        ext \in {"robot", "txt", "tsv", "ROBOT", "html", "py"}}

ClassInit ==
    /\ InitIdle
    /\ gIn = <<>> /\ gOut = Unset
    /\ cName \in ClassNames /\ cData \in SeqsUpTo(ClassLines, MaxLines) /\ cOut = "unset"

ClassApply ==
    /\ cOut = "unset"
    /\ cOut' = IF LooksLikeResourceFile(cName, cData) THEN "True" ELSE "False"
    /\ UNCHANGED <<collections, keywords, watches, content, lastOp, ret, task, globVars, cName, cData>>

ClassSpec == ClassInit /\ [][ClassApply]_vars

(***************************************************************************)
(* Properties of _glob_to_sql                                              *)
(***************************************************************************)

\* The body of a pattern read once from the left: an escaped \, * or ? is
\* kept, every other % is escaped, every other ? and * becomes _ and %.
RECURSIVE RuleBody(_)
RuleBody(p) ==
    IF p = <<>> THEN <<>>
    ELSE IF Len(p) >= 2 /\ p[1] = BS /\ p[2] \in {BS, "*", "?"}
    THEN <<p[1], p[2]>> \o RuleBody(DropFirst(p, 2))
    ELSE IF p[1] = "%" THEN <<BS, "%">> \o RuleBody(Tail(p))
    ELSE IF p[1] = "?" THEN <<"_">> \o RuleBody(Tail(p))
    ELSE IF p[1] = "*" THEN <<"%">> \o RuleBody(Tail(p))
    ELSE <<p[1]>> \o RuleBody(Tail(p))

\* The anchors: the body without its leading ^ or else behind a %, then
\* without its trailing $ or else ahead of a %.
RuleResult(p) ==
    LET body == RuleBody(p)
        left == IF body # <<>> /\ body[1] = "^" THEN Tail(body) ELSE <<"%">> \o body
    IN IF left # <<>> /\ left[Len(left)] = "$" THEN SubSeq(left, 1, Len(left) - 1)
       ELSE left \o <<"%">>

NoSentinel(p) ==
    \A i \in 1..Len(p) : p[i] \notin {Chr1, Chr2, Chr3}

\* C3: for a pattern without sentinel characters _glob_to_sql returns what
\* the five ordered rules give; "^Exact$" gives "Exact" and "Selenium*"
\* gives "%Selenium%%".
C3_GlobFollowsRules ==
    (gOut # Unset /\ NoSentinel(gIn)) =>
        /\ gOut = RuleResult(gIn)
        /\ gIn = PatternExact => gOut = <<"E", "x", "a", "c", "t">>
        /\ gIn = PatternSelenium => gOut = <<"%", "S", "e", "l", "e", "n", "i", "u", "m", "%", "%">>

\* An escaped backslash ahead of a wildcard and a literal %: \\*% has been
\* translated.
C3_Witness ==
    /\ gIn = <<BS, BS, "*", "%">>
    /\ gOut = <<"%", BS, BS, "%", BS, "%", "%">>

(***************************************************************************)
(* Properties of _looks_like_resource_file                                 *)
(***************************************************************************)

\* The name has a .robot, .txt or .tsv extension.
HasResourceExtension(name) ==
    SplitExt(Lower(Basename(name))) \in {<<".", "robot">>, <<".", "txt">>, <<".", "tsv">>}

\* The name follows the __init__ convention: the file is called __init__.
IsInitName(name) ==
    SplitRoot(Basename(name)) = <<"__init__">>

\* The line is a section header of the given kind.
IsHeader(line, kind) ==
    /\ Len(line) >= 2
    /\ IsStars(line[1])
    /\ HeaderGroup(line[2]) = kind

\* C10: _looks_like_resource_file is true exactly when the name has a
\* resource extension and is no __init__ file, and the text has a Keywords
\* header and no Test Cases header, in whatever order.
C10_ResourceExactly ==
    cOut # "unset" =>
        (cOut = "True" <=>
            /\ HasResourceExtension(cName)
            /\ ~IsInitName(cName)
            /\ \E i \in 1..Len(cData) : IsHeader(cData[i], "Keyword")
            /\ ~\E i \in 1..Len(cData) : IsHeader(cData[i], "Test Case"))

(***************************************************************************)
(* on_change statement by statement on the watch thread, with the control  *)
(* thread reading and adding between its statements. Every execute() on    *)
(* the one connection is a transaction of its own.                         *)
(***************************************************************************)

\* The keywords a collection owns, in the order of their keys.
OwnedKeywords(kws, collection_id) ==
    LET ids == Ascending({k.keyword_id : k \in {r \in kws : r.collection_id = collection_id}})
    IN [i \in 1..Len(ids) |->
           LET k == CHOOSE r \in kws : r.keyword_id = ids[i]
           IN [name |-> k.name, doc |-> k.doc, args |-> k.args]]

\* The keywords the extractor returns for the path now.
ExtractedKeywords(path) ==
    LET kws == LibraryDocumentation(path).keywords
    IN [i \in 1..Len(kws) |->
           [name |-> kws[i].name, doc |-> kws[i].doc, args |-> JsonDumps(kws[i].args)]]

\* on_modified dispatched: SELECT collection_id ... WHERE path == ?; fetchall()
WSelect(path) ==
    /\ task.pc = "idle"
    /\ Dispatched(path)
    /\ task' = [Idle EXCEPT !.pc = "loop", !.path = path,
                            !.results = CollectionsWithPath(StateNow, path)]
    /\ UNCHANGED <<collections, keywords, watches, content, lastOp, ret, globVars, classVars>>

\* for result in results: DELETE from keyword_table WHERE collection_id == ?
WDelete ==
    /\ task.pc = "loop"
    /\ task.results # <<>>
    /\ keywords' = {k \in keywords : k.collection_id # Head(task.results)}
    /\ task' = [task EXCEPT !.pc = "load", !.collection_id = Head(task.results),
                            !.results = Tail(task.results),
                            !.before = OwnedKeywords(keywords, Head(task.results)),
                            !.after = <<>>]
    /\ UNCHANGED <<collections, watches, content, lastOp, ret, globVars, classVars>>

\* _load_keywords: libdoc = LibraryDocumentation(path)
WExtract ==
    /\ task.pc = "load"
    /\ LET libdoc == LibraryDocumentation(task.path)
       IN IF libdoc.error # ""
          THEN /\ task' = Idle
               /\ lastOp' = [op |-> "on_modified", raised |-> libdoc.error]
          ELSE /\ task' = [task EXCEPT !.pc = "insert", !.todo = libdoc.keywords,
                                       !.after = ExtractedKeywords(task.path)]
               /\ lastOp' = lastOp
    /\ UNCHANGED <<collections, keywords, watches, content, ret, globVars, classVars>>

\* for keyword in libdoc.keywords: self._add_keyword(...)
WInsert ==
    /\ task.pc = "insert"
    /\ task.todo # <<>>
    /\ LET S == AddKeyword(StateNow, task.collection_id, Head(task.todo).name,
                           Head(task.todo).doc, Head(task.todo).args)
       IN /\ Bounded(S)
          /\ keywords' = S.keywords
    /\ task' = [task EXCEPT !.todo = Tail(task.todo)]
    /\ UNCHANGED <<collections, watches, content, lastOp, ret, globVars, classVars>>

\* _load_keywords returns: the next result of the loop
WLoaded ==
    /\ task.pc = "insert"
    /\ task.todo = <<>>
    /\ task' = [task EXCEPT !.pc = "loop", !.collection_id = 0, !.before = <<>>, !.after = <<>>]
    /\ UNCHANGED <<collections, keywords, watches, content, lastOp, ret, globVars, classVars>>

\* the loop is over: on_change returns
WReturn ==
    /\ task.pc = "loop"
    /\ task.results = <<>>
    /\ task' = Idle
    /\ lastOp' = [op |-> "on_modified", raised |-> ""]
    /\ UNCHANGED <<collections, keywords, watches, content, ret, globVars, classVars>>

ConcNext ==
    \/ \E name \in {LibDir, FileA} : DoAdd(name, TRUE)
    \/ \E v \in Versions(FileA) : WriteFile(FileA, v)
    \/ \E path \in Files : WSelect(path)
    \/ WDelete
    \/ WExtract
    \/ WInsert
    \/ WLoaded
    \/ WReturn
    \/ \E collection_id \in 1..MaxCollections : DoGetKeywordData(collection_id)

ConcSpec == Init /\ [][ConcNext]_vars

(***************************************************************************)
(* Properties of the catalog                                               *)
(***************************************************************************)

\* The store and the observer as the step leaves them.
StateNext ==
    [collections |-> collections', keywords |-> keywords', watches |-> watches', raised |-> ""]

\* C1: when on_change(path) completes, every collection with that path is
\* still there under its identifier and owns exactly the keywords the
\* extractor returns for the path.
C1_ReindexLoadsExtraction ==
    [][\A path \in Files :
          (OnModified(path) /\ lastOp'.raised = "") =>
              \A c \in collections :
                  c.path = path =>
                      /\ c \in collections'
                      /\ OwnedKeywords(keywords', c.collection_id) = ExtractedKeywords(path)]_vars

\* a.robot was added as version 1 (its row still has that version's doc),
\* then written as version 2 and reindexed: the collection owns Up and Go.
C1_Witness ==
    /\ lastOp = [op |-> "on_modified", raised |-> ""]
    /\ content[FileA] = 2
    /\ \E c \in collections :
           /\ c.path = FileA
           /\ c.doc = <<>>
           /\ OwnedKeywords(keywords, c.collection_id) = ExtractedKeywords(FileA)

\* C2: add(locator) again, the files being as they were, leaves the
\* collections and keywords as the first add left them.
C2_AddIdempotent ==
    [][\A name \in Locators :
          DoAdd(name, TRUE) =>
              /\ Add(StateNext, name, TRUE).collections = collections'
              /\ Add(StateNext, name, TRUE).keywords = keywords']_vars

\* C7: add(path, monitor=False), from the control thread or from a created
\* event, schedules nothing on the observer.
C7_NoMonitorNoWatch ==
    [][/\ \A name \in Locators : DoAdd(name, FALSE) => watches' = watches
       /\ \A path \in Files : OnCreated(path) => watches' = watches]_vars

\* The extractor fails on the locator: a file that is there, or a name
\* that is no path.
ExtractionFails(name) ==
    /\ ~IsDir(name)
    /\ LibraryDocumentation(name).error = "DataError"

\* C9: when the extractor fails with a DataError, add(locator) does not
\* raise and leaves the store as it was.
C9_AddSwallowsDataError ==
    [][\A name \in Locators :
          (DoAdd(name, TRUE) /\ ExtractionFails(name)) =>
              /\ lastOp'.raised = ""
              /\ collections' = collections
              /\ keywords' = keywords]_vars

(***************************************************************************)
(* Properties of a read during a reindex                                   *)
(***************************************************************************)

\* The two sequences hold the same elements the same number of times.
SameBag(a, b) ==
    /\ Len(a) = Len(b)
    /\ \A i \in 1..Len(a) :
           Cardinality({j \in 1..Len(a) : a[j] = a[i]}) =
               Cardinality({j \in 1..Len(b) : b[j] = a[i]})

\* The rows of get_keyword_data without their keys.
RowContents(rows) ==
    [i \in 1..Len(rows) |-> [name |-> rows[i][2], doc |-> rows[i][4], args |-> rows[i][3]]]

\* C8: get_keyword_data on a collection that on_change is reindexing returns
\* the keywords the collection had before the reindex, or the keywords the
\* reindex loads (none, when the extractor fails).
C8_ReadSeesWholeCollection ==
    [][\A collection_id \in 1..MaxCollections :
          (/\ task.pc \in {"load", "insert"}
           /\ task.collection_id = collection_id
           /\ ret'.op = "get_keyword_data"
           /\ DoGetKeywordData(collection_id)) =>
              \/ SameBag(RowContents(ret'.rows), task.before)
              \/ SameBag(RowContents(ret'.rows),
                         IF task.pc = "insert" THEN task.after
                         ELSE ExtractedKeywords(task.path))]_vars

(***************************************************************************)
(* Properties of the read operations                                       *)
(***************************************************************************)

NoDuplicates(rows) ==
    \A i, j \in 1..Len(rows) : rows[i] = rows[j] => i = j

\* The step is a search that returned the tuples of the rows, in some
\* order and any number of times each.
SearchReturned(rows) ==
    /\ ret'.op = "search"
    /\ lastOp'.op = "search"
    /\ UNCHANGED <<collections, keywords>>
    /\ {ret'.rows[i] : i \in 1..Len(ret'.rows)} =
           {SearchTuple(j) : j \in rows}

\* C4: search returns no tuple twice, and two matching keywords of
\* different collections come as two rows.
C4_SearchRowsDistinct ==
    [][ret'.op = "search" =>
          \A pattern \in SearchPatterns, mode \in {"both", "name"} :
              LET rows == SearchRows(StateNow, pattern, mode)
              IN SearchReturned(rows) =>
                     /\ NoDuplicates(ret'.rows)
                     /\ \A a, b \in rows :
                            a[1].collection_id # b[1].collection_id =>
                                \E i, j \in 1..Len(ret'.rows) :
                                    /\ i # j
                                    /\ ret'.rows[i][1] = a[1].collection_id
                                    /\ ret'.rows[i][3] = a[2].name
                                    /\ ret'.rows[j][1] = b[1].collection_id
                                    /\ ret'.rows[j][3] = b[2].name]_vars

\* Two collections hold a keyword of the same name and doc, one of them
\* holds it twice: search returned one row for each collection.
C4_Witness ==
    /\ ret.op = "search"
    /\ Len(ret.rows) = 2
    /\ ret.rows[1][1] # ret.rows[2][1]
    /\ ret.rows[1][3] = ret.rows[2][3]
    /\ ret.rows[1][4] = ret.rows[2][4]
    /\ Cardinality(keywords) = 3

\* ORDER BY collection identifier, collection name, keyword name
RowLeq(a, b) ==
    \/ a[1] < b[1]
    \/ a[1] = b[1] /\ a[2] # b[2] /\ TextLeq(a[2], b[2])
    \/ a[1] = b[1] /\ a[2] = b[2] /\ TextLeq(a[3], b[3])

\* C5: the list search returns is sorted by collection identifier, then
\* collection name, then keyword name.
C5_SearchSorted ==
    ret.op = "search" =>
        \A i, j \in 1..Len(ret.rows) : i < j => RowLeq(ret.rows[i], ret.rows[j])

\* The locator can be ingested: the extractor returns keywords for it.
Extractable(name) ==
    /\ LibraryDocumentation(name).error = ""
    /\ Len(LibraryDocumentation(name).keywords) > 0

\* C6: reset leaves no collection and no keyword, get_collections and search
\* then return nothing, and an add after it succeeds and is returned by the
\* read operations.
C6_ResetEmpties ==
    [][/\ Reset => (collections' = {} /\ keywords' = {})
       /\ (lastOp.op = "reset" /\ ret'.op = "get_collections" /\ \E libtype \in {<<"*">>, <<"r", "e", "s", "o", "u", "r", "c", "e">>} : DoGetCollections(<<"*">>, libtype))
              => ret'.rows = <<>>
       /\ (lastOp.op = "reset" /\ ret'.op = "search" /\ \E pattern \in SearchPatterns, mode \in {"both", "name"} : DoSearch(pattern, mode))
              => ret'.rows = <<>>
       /\ \A name \in {FileA, <<"XML">>} :
              (lastOp.op = "reset" /\ DoAdd(name, TRUE) /\ Extractable(name)) =>
                  /\ lastOp'.raised = ""
                  /\ \A rows \in GetCollections(StateNext, <<"*">>, <<"*">>) :
                         /\ Len(rows) = 1
                         /\ rows[1].name = LibraryDocumentation(name).name
                  /\ \A rows \in GetKeywordData(StateNext, 1) :
                         /\ Len(rows) = Len(LibraryDocumentation(name).keywords)
                         /\ {rows[i][2] : i \in 1..Len(rows)} =
                                {LibraryDocumentation(name).keywords[i].name :
                                    i \in 1..Len(LibraryDocumentation(name).keywords)}
                  /\ \A rows \in Search(StateNext, <<"*">>, "name") :
                         {rows[i][3] : i \in 1..Len(rows)} =
                             {LibraryDocumentation(name).keywords[i].name :
                                 i \in 1..Len(LibraryDocumentation(name).keywords)}]_vars

\* The folder was added, its watch is still scheduled, and reset has
\* run and emptied the store.
C6_Witness ==
    /\ lastOp.op = "reset"
    /\ watches[LibDir] > 0
    /\ collections = {}
    /\ keywords = {}

(***************************************************************************)
(* Properties of the collections and of the subscriptions                  *)
(***************************************************************************)

\* C11: no two collections have the same path, unless they have none.
C11_OneCollectionPerPath ==
    \A c, d \in collections :
        (c.path = d.path /\ c.path # None) => c = d

\* The keywords of the collections whose path is not the given one.
KeywordsOffPath(cs, kws, path) ==
    {k \in kws : \A c \in cs : c.collection_id = k.collection_id => c.path # path}

\* C13: on_change(path), whether it returns or raises, leaves every
\* collection row as it was and the keywords of the collections of another
\* path as they were; with no collection of that path it changes nothing.
C13_OnChangeFrame ==
    [][\A path \in Files :
          OnModified(path) =>
              /\ collections' = collections
              /\ KeywordsOffPath(collections', keywords', path) =
                     KeywordsOffPath(collections, keywords, path)
              /\ (\A c \in collections : c.path # path) => keywords' = keywords]_vars

\* a.robot and the library XML are in the store, a.robot was rewritten
\* and reindexed: its collection still has the doc of the version that
\* was added, and XML still has its keyword.
C13_Witness ==
    /\ lastOp = [op |-> "on_modified", raised |-> ""]
    /\ content[FileA] = 2
    /\ \E c, d \in collections :
           /\ c.path = FileA /\ c.doc = <<>>
           /\ d.path = None
           /\ \E k \in keywords : k.collection_id = d.collection_id
           /\ OwnedKeywords(keywords, c.collection_id) = ExtractedKeywords(FileA)

\* The handlers scheduled on the directory or on a directory above it.
Covering(d) ==
    {e \in Dirs : watches[e] > 0 /\ (e = d \/ StartsWith(d, e \o <<"/">>))}

\* C15: no directory is covered by two subscriptions: no directory has two
\* handlers, and none has a handler while a directory above it has one.
C15_OneSubscription ==
    \A d \in Dirs :
        /\ watches[d] <= 1
        /\ Cardinality(Covering(d)) <= 1

\* C16: a deleted event leaves the store as it was, and no step but reset
\* removes a collection row.
C16_OnlyResetRemoves ==
    [][/\ (\E path \in Files : OnDeleted(path)) =>
              (collections' = collections /\ keywords' = keywords)
       /\ lastOp'.op # "reset" => collections \subseteq collections']_vars

\* A deleted event arrived for the file of a collection and the collection
\* is still there with its keywords.
C16_Witness ==
    /\ lastOp.op = "on_deleted"
    /\ \E c \in collections :
           /\ c.path = FileA
           /\ \E k \in keywords : k.collection_id = c.collection_id

(***************************************************************************)
(* Properties of the two threads writing                                   *)
(***************************************************************************)

\* C19: the control thread inserts no row while the watch thread is
\* between the DELETE of on_change and the last insert of its reload.
C19_WritesSerialized ==
    [][((\E name \in {LibDir, FileA} : DoAdd(name, TRUE)) /\ collections' # collections) =>
           task.pc \notin {"load", "insert"}]_vars

(***************************************************************************)
(* A folder of several files, some of which the extractor fails on         *)
(***************************************************************************)

\* a.robot, m.py and sub/b.txt are on disk, or not, in any of their versions.
FolderInit ==
    /\ InitStore
    /\ InitPure
    /\ content \in {c \in [Files -> 0..10] :
                       /\ c[FileA] \in {1, 3}
                       /\ c[FileM] \in {0, 6, 8, 9}
                       /\ c[FileB] \in {0, 7}}

FolderNext ==
    \/ \E name \in {LibDir, FileM} : DoAdd(name, TRUE)
    \/ Reset
    \/ \E v \in {1, 3} : WriteFile(FileA, v)
    \/ \E v \in {0, 6, 8, 9} : WriteFile(FileM, v)
    \/ \E v \in {0, 7} : WriteFile(FileB, v)

FolderSpec == FolderInit /\ [][FolderNext]_vars

\* add ingests the file: it is there, one of the three sniffs takes it and
\* the extractor returns keywords for it.
Ingestible(path) ==
    /\ IsFile(path)
    /\ \/ LooksLikeResourceFile(path, FileLines(path))
       \/ LooksLikeLibdocFile(path, ReadText(FileLines(path)))
       \/ LooksLikeLibraryFile(path)
    /\ Extractable(path)

\* m.py has the classes C and D, and the extractor fails on C with one of
\* the errors add_keywords_from_classes catches.
FirstClassFails ==
    /\ IsFile(FileM)
    /\ GetClassnamesFromFile(FileM) = <<"C", "D">>
    /\ LibraryDocumentation(<<"m", ".", "C">>).error \in {"KeyError", "AttributeError", "DataError"}

\* C20: add of a folder returns normally and schedules its handler whatever
\* the extractor fails on, and ingests every file of the folder and of its
\* subfolders that it can; a class the extractor fails on does not keep the
\* class after it from being ingested.
C20_BatchNeverAborts ==
    [][/\ DoAdd(LibDir, TRUE) =>
              /\ lastOp'.raised = ""
              /\ watches'[LibDir] = watches[LibDir] + 1
              /\ \A path \in Files :
                     Ingestible(path) =>
                         \E c \in collections' \ collections : c.path = path
       /\ (FirstClassFails /\ \E name \in {LibDir, FileM} : DoAdd(name, TRUE)) =>
              /\ lastOp'.raised = ""
              /\ \E c \in collections' \ collections : c.name = LibClassD.name]_vars

\* The extractor fails on a.robot, the first entry of the folder, and on
\* the first class of m.py: the folder was added, m.py and its second
\* class are collections and the folder is watched.
C20_Witness ==
    /\ lastOp = [op |-> "add", raised |-> ""]
    /\ content[FileA] = 3
    /\ FirstClassFails
    /\ watches[LibDir] = 1
    /\ \E c, d \in collections :
           /\ c.path = FileM
           /\ d.name = LibClassD.name

(***************************************************************************)
(* _add_keyword of every short argument list, read back with get_keyword   *)
(***************************************************************************)

MaxArgs == 3

\* The argument tokens: plain ones, and ones made of the characters JSON
\* escapes or gives a meaning to.
ArgTokens ==
    {<<"b", "=", "1">>, <<"\"">>, <<BS, "n">>, <<"\n">>, <<>>}

ArgLists == SeqsUpTo(ArgTokens, MaxArgs)

KeywordK == <<"K">>

ArgsInit ==
    /\ InitIdle
    /\ InitPure

\* kwdb._add_keyword(1, "K", "", args) on an empty keyword table
AddKeywordCall(args) ==
    /\ keywords = {}
    /\ Becomes(AddKeyword(StateNow, 1, KeywordK, <<>>, args), "_add_keyword")
    /\ ret' = NoResult
    /\ UNCHANGED <<content, task, globVars, classVars>>

ArgsNext ==
    \/ \E args \in ArgLists : AddKeywordCall(args)
    \/ DoGetKeyword(1, Lower(KeywordK))
    \/ Reset

ArgsSpec == ArgsInit /\ [][ArgsNext]_vars

\* C18: the argument list get_keyword returns for a keyword is the list
\* _add_keyword was given, element by element.
C18_ArgsRoundTrip ==
    [][\A args \in ArgLists :
          (lastOp'.op = "_add_keyword" /\ AddKeywordCall(args)) =>
              \A r \in GetKeyword(StateNext, 1, KeywordK) :
                  /\ r # EmptyDict
                  /\ r.args = args]_vars

\* get_keyword returned a list of a quote, a backslash before an n, and the
\* empty token.
C18_Witness ==
    /\ ret.op = "get_keyword"
    /\ Len(ret.rows) = 1
    /\ ret.rows[1].args = << <<"\"">>, <<BS, "n">>, <<>> >>
    /\ \E k \in keywords : k.name = KeywordK /\ JsonLoads(k.args) = ret.rows[1].args

(***************************************************************************)
(* Patterns with %, _ and the glob characters against keyword names and    *)
(* docs that hold such characters                                          *)
(***************************************************************************)

\* The patterns that hold a literal %.
PercentPatterns ==
    {<<"5", "%">>, <<"%">>}

\* The name patterns given to get_keyword.
NamePatterns ==
    {<<"c", "*">>, <<"c", "?">>, <<"C", "D">>, <<"c", "_">>, <<"^", "c", "d", "$">>, <<"5", "%">>}

\* sub/b.txt is on disk, in the version with a keyword named 5% and a
\* keyword whose doc holds a backslash, or in the one with the keyword Go.
MatchInit ==
    /\ InitStore
    /\ InitPure
    /\ content \in {c \in [Files -> 0..10] : c[FileA] = 0 /\ c[FileM] = 0 /\ c[FileB] \in {7, 10}}

MatchNext ==
    \/ \E name \in {LibDir, FileB, <<"XML">>} : DoAdd(name, TRUE)
    \/ Reset
    \/ \E v \in {7, 10} : WriteFile(FileB, v)
    \/ \E pattern \in PercentPatterns, mode \in {"both", "name"} : DoSearch(pattern, mode)
    \/ \E collection_id \in 1..MaxCollections, name \in NamePatterns :
           DoGetKeyword(collection_id, name)

MatchSpec == MatchInit /\ [][MatchNext]_vars

\* The keywords of the collection that the name pattern matches as a glob
\* pattern, as get_keywords and search match theirs.
GlobMatches(collection_id, name) ==
    {k \in keywords : k.collection_id = collection_id /\ ILike(k.name, GlobToSql(name))}

\* C12: get_keyword reads its name pattern as a glob pattern, without regard
\* to case: it returns one of the keywords of the collection the pattern
\* matches, and nothing when it matches none.
C12_GetKeywordGlob ==
    [][\A collection_id \in 1..MaxCollections, name \in NamePatterns :
          (ret'.op = "get_keyword" /\ DoGetKeyword(collection_id, name)) =>
              IF GlobMatches(collection_id, name) = {} THEN ret'.rows = <<>>
              ELSE /\ Len(ret'.rows) = 1
                   /\ \E k \in GlobMatches(collection_id, name) : k.name = ret'.rows[1].name]_vars

\* sub occurs in text.
Contains(text, sub) ==
    \E i \in 0..(Len(text) - Len(sub)) : SubSeq(text, i + 1, i + Len(sub)) = sub

\* C14: every row search returns for a pattern with a literal % is of a
\* keyword whose name (or doc, when docs are searched) holds the characters
\* of the pattern, the % among them.
C14_PercentIsLiteral ==
    [][\A pattern \in PercentPatterns, mode \in {"both", "name"} :
          (ret'.op = "search" /\ DoSearch(pattern, mode)) =>
              \A i \in 1..Len(ret'.rows) :
                  \E k \in keywords :
                      /\ k.collection_id = ret'.rows[i][1]
                      /\ k.name = ret'.rows[i][3]
                      /\ \/ Contains(Lower(k.name), Lower(pattern))
                         \/ mode = "both" /\ Contains(Lower(k.doc), Lower(pattern))]_vars

(***************************************************************************)
(* add_installed_libraries over the folder of robot.libraries              *)
(***************************************************************************)

\* What os.listdir gives for the folder of robot.libraries, in the order the
\* platform gives it: the module XML and its compiled file next to a
\* reserved and a private module; the module Easter; a module the extractor
\* fails on.
InstalledListings ==
    {<< <<"XML", ".", "pyc">>, <<"Remote", ".", "py">>, <<"_", "x", ".", "py">>, <<"XML", ".", "py">> >>,
     << <<"Easter", ".", "py">>, <<"XML", ".", "py">> >>,
     << <<"Broken", ".", "py">>, <<"XML", ".", "py">>, <<"XML", ".", "pyc">> >>}

\* kwdb.add_installed_libraries()
DoAddInstalledLibraries(listing) ==
    /\ Becomes(AddInstalledLibraries(StateNow, listing), "add_installed_libraries")
    /\ ret' = NoResult
    /\ UNCHANGED <<content, task, globVars, classVars>>

SweepNext ==
    \/ \E listing \in InstalledListings : DoAddInstalledLibraries(listing)
    \/ \E name \in {FileA, <<"XML">>} : DoAdd(name, TRUE)
    \/ Reset
    \/ \E v \in Versions(FileA) : WriteFile(FileA, v)
    \/ \E libtype \in {<<"*">>, <<"l", "i", "b", "r", "a", "r", "y">>} : DoGetCollections(<<"*">>, libtype)

SweepSpec == Init /\ [][SweepNext]_vars

\* The names that are not to be ingested, in lower case.
Denylisted(name) ==
    \/ StartsWith(Lower(name), <<"deprecated">>)
    \/ StartsWith(Lower(name), <<"_">>)
    \/ Lower(name) \in {<<"remote">>, <<"reserved">>, <<"easter">>,
                        <<"dialogs_py">>, <<"dialogs_ipy">>, <<"dialogs_jy">>}

\* C17: the sweep adds no collection for a library that is already loaded
\* by its logical name, no two collections for one name, and no collection
\* for a name of the denylist.
C17_SweepLoadsOnce ==
    [][\A listing \in InstalledListings :
          DoAddInstalledLibraries(listing) =>
              \A c \in collections' \ collections :
                  /\ \A d \in collections :
                         d.path = None => Lower(d.name) # Lower(c.name)
                  /\ \A d \in collections' \ collections :
                         Lower(d.name) = Lower(c.name) => d = c
                  /\ ~Denylisted(c.name)]_vars

(***************************************************************************)
(* _looks_like_libdoc_file applied to names and short file texts           *)
(***************************************************************************)

MaxAtoms == 3

XmlDecl == "<?xml version=\"1.0\" encoding=\"UTF-8\"?>"
LongComment == "<!-- 200 characters of comment -->"

LibdocAtoms ==
    {"<keywordspec ", "<KeywordSpec ", XmlDecl, LongComment, "a", "\n"}

LibdocNames ==
    {LibDir \o <<"/", "x", ".", ext>> : ext \in {"xml", "XML", "txt", "robot"}}

LibdocInit ==
    /\ InitIdle
    /\ gIn = <<>> /\ gOut = Unset
    /\ cName \in LibdocNames /\ cData \in SeqsUpTo(LibdocAtoms, MaxAtoms) /\ cOut = "unset"

LibdocApply ==
    /\ cOut = "unset"
    /\ cOut' = IF LooksLikeLibdocFile(cName, cData) THEN "True" ELSE "False"
    /\ UNCHANGED <<collections, keywords, watches, content, lastOp, ret, task, globVars, cName, cData>>

LibdocSpec == LibdocInit /\ [][LibdocApply]_vars

(***************************************************************************)
(* Properties of _looks_like_libdoc_file                                   *)
(***************************************************************************)

\* The number of characters of the first i atoms of a text.
RECURSIVE CharsUpTo(_, _)
CharsUpTo(text, i) ==
    IF i = 0 THEN 0 ELSE CharsUpTo(text, i - 1) + AtomLen(text[i])

\* The marker token, in any case, lies within the first n characters.
MarkerWithin(text, n) ==
    \E i \in 1..Len(text) :
        /\ LowerAtom(text[i]) = "<keywordspec "
        /\ CharsUpTo(text, i) <= n

\* C21: _looks_like_libdoc_file is true exactly when the name ends in .xml
\* in any case and the marker token occurs, in any case, anywhere within
\* the first 200 characters of the file, the very start included.
C21_LibdocExactly ==
    cOut # "unset" /\ cName \in LibdocNames =>
        (cOut = "True" <=>
            /\ EndsWith(Lower(cName), <<".", "xml">>)
            /\ MarkerWithin(cData, 200))

(***************************************************************************)
(* reset on the control thread between the statements of on_change         *)
(***************************************************************************)

ResetRaceNext ==
    \/ ConcNext
    \/ Reset

ResetRaceSpec == Init /\ [][ResetRaceNext]_vars

\* C22: every keyword's collection_id is the collection_id of a collection
\* of the store, whatever the interleaving of on_change and of an add with
\* reset.
C22_KeywordsOwned ==
    \A k \in keywords : \E c \in collections : c.collection_id = k.collection_id

(***************************************************************************)
(* on_change of a file whose extraction fails or gives no keywords         *)
(***************************************************************************)

\* a.robot with keywords, with one keyword, half written, and with a
\* keyword table that has no keyword.
ReindexVersions == {1, 2, 3, 11}

ReindexInit ==
    /\ InitStore
    /\ InitPure
    /\ content \in {c \in [Files -> 0..11] :
                       c[FileA] \in ReindexVersions /\ c[FileM] = 0 /\ c[FileB] \in {0, 7}}

ReindexNext ==
    \/ \E name \in {LibDir, FileA} : DoAdd(name, TRUE)
    \/ \E path \in Files : OnModified(path)
    \/ Reset
    \/ \E v \in ReindexVersions : WriteFile(FileA, v)

ReindexSpec == ReindexInit /\ [][ReindexNext]_vars

\* C23: when the extraction raises, on_change raises, every collection row
\* stays, the collection on_change was reindexing has no keywords and no
\* other keyword has changed; when the extraction gives no keywords every
\* collection of the path stays and has no keywords.
C23_DeleteBeforeExtract ==
    [][\A path \in Files :
          (lastOp'.op = "on_modified" /\ OnModified(path)
              /\ CollectionsWithPath(StateNow, path) # <<>>) =>
              LET first == Head(CollectionsWithPath(StateNow, path))
                  libdoc == LibraryDocumentation(path)
              IN /\ libdoc.error # "" =>
                        /\ lastOp'.raised = libdoc.error
                        /\ collections' = collections
                        /\ OwnedKeywords(keywords', first) = <<>>
                        /\ keywords' = {k \in keywords : k.collection_id # first}
                 /\ (libdoc.error = "" /\ libdoc.keywords = <<>>) =>
                        /\ lastOp'.raised = ""
                        /\ collections' = collections
                        /\ \A c \in collections :
                               c.path = path => OwnedKeywords(keywords', c.collection_id) = <<>>]_vars

\* a.robot was added with its keywords, then written half and a modified
\* event came: on_change raised, the collection is there without keywords.
C23_Witness ==
    /\ lastOp = [op |-> "on_modified", raised |-> "DataError"]
    /\ content[FileA] = 3
    /\ \E c \in collections :
           /\ c.path = FileA
           /\ OwnedKeywords(keywords, c.collection_id) = <<>>

(***************************************************************************)
(* A library module file: its collection, the collections of its classes   *)
(* and a modified event for the file                                       *)
(***************************************************************************)

\* m.py with a class the extractor documents, with a class it fails on,
\* and with two classes of which it documents the second.
ModuleVersions == {5, 6, 8}

ModuleInit ==
    /\ InitStore
    /\ InitPure
    /\ content \in {c \in [Files -> 0..11] :
                       c[FileA] \in {0, 1} /\ c[FileM] \in ModuleVersions /\ c[FileB] = 0}

ModuleNext ==
    \/ \E name \in {LibDir, FileM} : DoAdd(name, TRUE)
    \/ \E path \in Files : OnModified(path)
    \/ Reset
    \/ \E v \in ModuleVersions : WriteFile(FileM, v)

ModuleSpec == ModuleInit /\ [][ModuleNext]_vars

\* The logical library name of a class of m.py.
ClassLibrary(cls) == <<"m", ".", cls>>

\* The classes defined in m.py now.
ClassesOfModule ==
    {GetClassnamesFromFile(FileM)[i] : i \in 1..Len(GetClassnamesFromFile(FileM))}

\* The extractor documents the class, with at least one keyword.
ClassDocumented(cls) ==
    /\ LibraryDocumentation(ClassLibrary(cls)).error = ""
    /\ LibraryDocumentation(ClassLibrary(cls)).keywords # <<>>

\* A modified event for m.py leaves the collections without a path with
\* the keywords they had, and reindexes the collections with the path.
ClassCollectionsKept ==
    (lastOp'.op = "on_modified" /\ OnModified(FileM) /\ lastOp'.raised = "") =>
        /\ collections' = collections
        /\ \A c \in collections :
               IF c.path = FileM
               THEN OwnedKeywords(keywords', c.collection_id) = ExtractedKeywords(FileM)
               ELSE {k \in keywords' : k.collection_id = c.collection_id}
                        = {k \in keywords : k.collection_id = c.collection_id}

\* The new collections of the step: n of them, one with the path of m.py,
\* the others without a path and named after a class.
NewCollections(n) ==
    LET new == collections' \ collections
    IN /\ Cardinality(new) = n
       /\ Cardinality({c \in new : c.path = FileM}) = 1
       /\ \A c \in new : c.path # FileM =>
              /\ c.path = None
              /\ \E cls \in ClassesOfModule : c.name = ClassLibrary(cls)

\* C24: add of m.py creates one collection with the path and one collection
\* without a path for every class defined in the file; a modified event for
\* the file reindexes the first and leaves the keywords of the others.
C24_ModuleCollections ==
    [][/\ (lastOp'.op = "add" /\ DoAdd(FileM, TRUE) /\ lastOp'.raised = "") =>
              /\ NewCollections(1 + Cardinality(ClassesOfModule))
              /\ \A cls \in ClassesOfModule :
                     \E c \in collections' \ collections : c.name = ClassLibrary(cls)
       /\ ClassCollectionsKept]_vars

\* C24 as the code has it: add of m.py creates one collection with the path
\* and one collection without a path for every class of the file that the
\* extractor documents with at least one keyword, and none for the other
\* classes; a modified event for the file reindexes the first and leaves
\* the keywords of the others.
C24_DocumentedClassCollections ==
    [][/\ (lastOp'.op = "add" /\ DoAdd(FileM, TRUE) /\ lastOp'.raised = "") =>
              /\ NewCollections(1 + Cardinality({cls \in ClassesOfModule : ClassDocumented(cls)}))
              /\ \A cls \in ClassesOfModule :
                     ClassDocumented(cls) <=>
                         \E c \in collections' \ collections :
                             /\ c.name = ClassLibrary(cls)
                             /\ OwnedKeywords(keywords', c.collection_id)
                                    = ExtractedKeywords(ClassLibrary(cls))
       /\ ClassCollectionsKept]_vars

\* m.py was added when the extractor documented its class C, then written
\* anew and reindexed: the collection of the file has the new keyword, the
\* collection of C is there with the keyword it had, although the extractor
\* now fails on C.
C24_Witness ==
    /\ lastOp = [op |-> "on_modified", raised |-> ""]
    /\ content[FileM] = 6
    /\ \E c \in collections :
           /\ c.path = FileM
           /\ OwnedKeywords(keywords, c.collection_id) = ExtractedKeywords(FileM)
    /\ \E c \in collections :
           /\ c.path = None
           /\ c.name = ClassLibrary("C")
           /\ OwnedKeywords(keywords, c.collection_id) # <<>>

=============================================================================
